---------------------------- MODULE Spec2Model ----------------------------
(***************************************************************************)
(* Web receiver of the secure heart-rate monitor (src/app.js, and its      *)
(* earlier variant src/unnamed/part_000): Haar DWT + QIM + SHA-256         *)
(* watermark verification of the blocks that arrive over MQTT.             *)
(*                                                                         *)
(* Numbers.  The JavaScript code computes in IEEE doubles.  The model      *)
(* computes with exact decimal numbers: a number is a record               *)
(* [neg, mag, sc] that stands for (-1)^neg * mag / 10000^sc, where mag is  *)
(* a natural number kept as a little-endian sequence of base-10000 limbs   *)
(* (TLC's integers are 32 bits wide, the products of the code are not).    *)
(* Math.floor, Math.round and the comparisons of the code are evaluated    *)
(* on the exact value; on the inputs the model draws, no exact value lies  *)
(* within a rounding error of a point where floor or round jumps, so the   *)
(* exact result is the result of the doubles.                              *)
(*                                                                         *)
(* Samples, offsets and noise are carried in hundredths (7500 is 75.00).   *)
(***************************************************************************)
EXTENDS Integers, Sequences, FiniteSets, TLC

(***************************************************************************)
(* Natural numbers of any size: little-endian base-10000 limbs, no leading *)
(* zero limb; <<>> is 0.                                                   *)
(***************************************************************************)
Limb(x, i) == IF i <= Len(x) THEN x[i] ELSE 0

RECURSIVE BigTrim(_)
BigTrim(x) ==
  IF Len(x) > 0 /\ x[Len(x)] = 0 THEN BigTrim(SubSeq(x, 1, Len(x) - 1)) ELSE x

RECURSIVE NatToBig(_)
NatToBig(n) == IF n = 0 THEN <<>> ELSE <<n % 10000>> \o NatToBig(n \div 10000)

RECURSIVE BigToNat(_)
BigToNat(x) == IF Len(x) = 0 THEN 0 ELSE x[1] + 10000 * BigToNat(Tail(x))

RECURSIVE BigAddFrom(_, _, _, _)
BigAddFrom(x, y, i, carry) ==
  IF i > Len(x) /\ i > Len(y)
  THEN IF carry = 0 THEN <<>> ELSE <<carry>>
  ELSE LET s == Limb(x, i) + Limb(y, i) + carry
       IN <<s % 10000>> \o BigAddFrom(x, y, i + 1, s \div 10000)

BigAdd(x, y) == BigAddFrom(x, y, 1, 0)

\* x - y for x >= y
RECURSIVE BigSubFrom(_, _, _, _)
BigSubFrom(x, y, i, borrow) ==
  IF i > Len(x) THEN <<>>
  ELSE LET d == x[i] - Limb(y, i) - borrow
       IN <<d % 10000>> \o BigSubFrom(x, y, i + 1, IF d < 0 THEN 1 ELSE 0)

BigSub(x, y) == BigTrim(BigSubFrom(x, y, 1, 0))

\* -1, 0, 1 as x < y, x = y, x > y: the most significant differing limb decides
RECURSIVE BigCmpFrom(_, _, _)
BigCmpFrom(x, y, i) ==
  IF i = 0 THEN 0
  ELSE IF x[i] < y[i] THEN -1
  ELSE IF x[i] > y[i] THEN 1
  ELSE BigCmpFrom(x, y, i - 1)

BigCmp(x, y) ==
  IF Len(x) < Len(y) THEN -1
  ELSE IF Len(x) > Len(y) THEN 1
  ELSE BigCmpFrom(x, y, Len(x))

\* x * m for a small natural m (m * 9999 fits 32 bits)
RECURSIVE BigMulSmallFrom(_, _, _, _)
BigMulSmallFrom(x, m, i, carry) ==
  IF i > Len(x) THEN NatToBig(carry)
  ELSE LET p == x[i] * m + carry
       IN <<p % 10000>> \o BigMulSmallFrom(x, m, i + 1, p \div 10000)

BigMulSmall(x, m) == IF m = 0 THEN <<>> ELSE BigMulSmallFrom(x, m, 1, 0)

BigShift(x, k) == IF Len(x) = 0 THEN <<>> ELSE [i \in 1..k |-> 0] \o x

RECURSIVE BigMulFrom(_, _, _)
BigMulFrom(x, y, j) ==
  IF j > Len(y) THEN <<>>
  ELSE BigAdd(BigShift(BigMulSmall(x, y[j]), j - 1), BigMulFrom(x, y, j + 1))

BigMul(x, y) == BigMulFrom(x, y, 1)

\* floor(x / d) and x mod d for a small d > 0, from the most significant limb down
BigDivModStep(rest, digit) == [q |-> Append(rest.q, digit), r |-> rest.r]

RECURSIVE BigDivModFrom(_, _, _, _)
BigDivModFrom(x, d, i, rem) ==
  IF i = 0 THEN [q |-> <<>>, r |-> rem]
  ELSE BigDivModStep(BigDivModFrom(x, d, i - 1, (rem * 10000 + x[i]) % d),
                     (rem * 10000 + x[i]) \div d)

BigDivModTrim(dm) == [q |-> BigTrim(dm.q), r |-> dm.r]

BigDivMod(x, d) == BigDivModTrim(BigDivModFrom(x, d, Len(x), 0))

(***************************************************************************)
(* Exact decimal numbers (the doubles of the code).                        *)
(***************************************************************************)
RECURSIVE DecNormFrac(_, _)
DecNormFrac(mag, sc) ==
  IF sc > 0 /\ Len(mag) > 0 /\ mag[1] = 0 THEN DecNormFrac(Tail(mag), sc - 1)
  ELSE [mag |-> mag, sc |-> sc]

DecOfNorm(neg, n) ==
  IF Len(n.mag) = 0 THEN [neg |-> FALSE, mag |-> <<>>, sc |-> 0]
  ELSE [neg |-> neg, mag |-> n.mag, sc |-> n.sc]

DecMake(neg, mag, sc) == DecOfNorm(neg, DecNormFrac(BigTrim(mag), sc))

DecInt(n) == DecMake(n < 0, NatToBig(IF n < 0 THEN -n ELSE n), 0)

\* h hundredths: h / 100 = (100 h) / 10000
Num(h) == DecMake(h < 0, NatToBig((IF h < 0 THEN -h ELSE h) * 100), 1)

DecZero == DecInt(0)
DecIsZero(x) == Len(x.mag) = 0
DecNeg(x) == IF DecIsZero(x) THEN x ELSE [x EXCEPT !.neg = ~x.neg]
DecAbs(x) == [x EXCEPT !.neg = FALSE]

\* the magnitude of x written over 10000^sc, sc >= x.sc
DecMagAt(x, sc) == BigShift(x.mag, sc - x.sc)

DecMaxSc(x, y) == IF x.sc >= y.sc THEN x.sc ELSE y.sc

\* a, b: the magnitudes of x and y over 10000^sc
DecAddMags(x, y, a, b, sc) ==
  IF x.neg = y.neg THEN DecMake(x.neg, BigAdd(a, b), sc)
  ELSE IF BigCmp(a, b) = 0 THEN DecZero
  ELSE IF BigCmp(a, b) > 0 THEN DecMake(x.neg, BigSub(a, b), sc)
  ELSE DecMake(y.neg, BigSub(b, a), sc)

DecAdd(x, y) ==
  DecAddMags(x, y, DecMagAt(x, DecMaxSc(x, y)), DecMagAt(y, DecMaxSc(x, y)),
             DecMaxSc(x, y))

DecSub(x, y) == DecAdd(x, DecNeg(y))

DecMul(x, y) == DecMake(x.neg # y.neg, BigMul(x.mag, y.mag), x.sc + y.sc)

\* -1, 0, 1 as x < y, x = y, x > y
DecSign(d) == IF DecIsZero(d) THEN 0 ELSE IF d.neg THEN -1 ELSE 1

DecCmp(x, y) == DecSign(DecSub(x, y))

DecLE(x, y) == DecCmp(x, y) <= 0

\* Math.floor(x / d) for an integer d > 0, as an integer
DecWhole(x) ==
  IF x.sc >= Len(x.mag) THEN <<>> ELSE SubSeq(x.mag, x.sc + 1, Len(x.mag))

DecFrac(x) == SubSeq(x.mag, 1, IF x.sc >= Len(x.mag) THEN Len(x.mag) ELSE x.sc)

\* dm: the quotient and the remainder of the whole part of x by d
DecFloorOf(x, dm) ==
  IF ~x.neg THEN BigToNat(dm.q)
  ELSE IF dm.r = 0 /\ Len(BigTrim(DecFrac(x))) = 0 THEN -BigToNat(dm.q)
  ELSE -BigToNat(dm.q) - 1

DecFloorDiv(x, d) == DecFloorOf(x, BigDivMod(DecWhole(x), d))

\* Math.floor(x / d + 0.5) and Math.round(x / d): floor((2 x + d) / (2 d))
DecRoundDiv(x, d) == DecFloorDiv(DecAdd(DecMul(x, DecInt(2)), DecInt(d)), 2 * d)

(***************************************************************************)
(* SHA-256 (FIPS 180-4), the sha256() of the js-sha256 library the page    *)
(* loads, over a message given as its sequence of bytes.  A 32-bit word is *)
(* a pair <<high 16 bits, low 16 bits>>.  The result is the digest as a    *)
(* sequence of 32 bytes: the hexadecimal string the library returns, two   *)
(* characters per byte.                                                    *)
(***************************************************************************)
RECURSIVE AndBits(_, _, _)
AndBits(a, b, n) ==
  IF n = 0 THEN 0
  ELSE ((a % 2) * (b % 2)) + 2 * AndBits(a \div 2, b \div 2, n - 1)

And8 == [a \in 0..255 |-> [b \in 0..255 |-> AndBits(a, b, 8)]]

And16(a, b) == And8[a \div 256][b \div 256] * 256 + And8[a % 256][b % 256]
Xor16(a, b) == a + b - 2 * And16(a, b)

WAnd(u, v) == <<And16(u[1], v[1]), And16(u[2], v[2])>>
WXor(u, v) == <<Xor16(u[1], v[1]), Xor16(u[2], v[2])>>
WNot(u) == <<65535 - u[1], 65535 - u[2]>>

\* addition modulo 2^32
WAdd(u, v) ==
  LET lo == u[2] + v[2]
      hi == u[1] + v[1] + (lo \div 65536)
  IN <<hi % 65536, lo % 65536>>

RECURSIVE Pow2(_)
Pow2(n) == IF n = 0 THEN 1 ELSE 2 * Pow2(n - 1)

\* rotate right and shift right by 0 < n < 32
Rotr(u, n) ==
  LET h == IF n >= 16 THEN u[2] ELSE u[1]
      l == IF n >= 16 THEN u[1] ELSE u[2]
      p == Pow2(n % 16)
      q == Pow2(16 - (n % 16))
  IN <<(h \div p) + (l % p) * q, (l \div p) + (h % p) * q>>

Shr(u, n) ==
  IF n >= 16 THEN <<0, u[1] \div Pow2(n - 16)>>
  ELSE <<u[1] \div Pow2(n), (u[2] \div Pow2(n)) + (u[1] % Pow2(n)) * Pow2(16 - n)>>

Xor3(a, b, c) == WXor(WXor(a, b), c)
BigSigma0(a) == Xor3(Rotr(a, 2), Rotr(a, 13), Rotr(a, 22))
BigSigma1(e) == Xor3(Rotr(e, 6), Rotr(e, 11), Rotr(e, 25))
SmallSigma0(w) == Xor3(Rotr(w, 7), Rotr(w, 18), Shr(w, 3))
SmallSigma1(w) == Xor3(Rotr(w, 17), Rotr(w, 19), Shr(w, 10))
Ch(e, f, g) == WXor(WAnd(e, f), WAnd(WNot(e), g))
Maj(a, b, c) == Xor3(WAnd(a, b), WAnd(a, c), WAnd(b, c))

ShaK ==
  <<
    <<17034, 12184>>, <<28983, 17553>>, <<46528, 64463>>, <<59829, 56229>>,
    <<14678, 49755>>, <<23025, 4593>>, <<37439, 33444>>, <<43804, 24277>>,
    <<55303, 43672>>, <<4739, 23297>>, <<9265, 34238>>, <<21772, 32195>>,
    <<29374, 23924>>, <<32990, 45566>>, <<39900, 1703>>, <<49563, 61812>>,
    <<58523, 27073>>, <<61374, 18310>>, <<4033, 40390>>, <<9228, 41420>>,
    <<11753, 11375>>, <<19060, 33962>>, <<23728, 43484>>, <<30457, 35034>>,
    <<38974, 20818>>, <<43057, 50797>>, <<45059, 10184>>, <<48985, 32711>>,
    <<50912, 3059>>, <<54695, 37191>>, <<1738, 25425>>, <<5161, 10599>>,
    <<10167, 2693>>, <<11803, 8504>>, <<19756, 28156>>, <<21304, 3347>>,
    <<25866, 29524>>, <<30314, 2747>>, <<33218, 51502>>, <<37490, 11397>>,
    <<41663, 59553>>, <<43034, 26187>>, <<49739, 35696>>, <<51052, 20899>>,
    <<53650, 59417>>, <<54937, 1572>>, <<62478, 13701>>, <<4202, 41072>>,
    <<6564, 49430>>, <<7735, 27656>>, <<10056, 30540>>, <<13488, 48309>>,
    <<14620, 3251>>, <<20184, 43594>>, <<23452, 51791>>, <<26670, 28659>>,
    <<29839, 33518>>, <<30885, 25455>>, <<33992, 30740>>, <<36039, 520>>,
    <<37054, 65530>>, <<42064, 27883>>, <<48889, 41975>>, <<50801, 30962>> >>

ShaH0 ==
  <<
    <<27145, 58983>>, <<47975, 44677>>, <<15470, 62322>>, <<42319, 62778>>,
    <<20750, 21119>>, <<39685, 26764>>, <<8067, 55723>>, <<23520, 52505>> >>

\* the message, the byte 0x80, zeros up to 56 modulo 64, the bit length in 8 bytes
ShaPad(msg) ==
  LET len == Len(msg)
      z == (64 - ((len + 9) % 64)) % 64
      bits == len * 8
  IN msg \o <<128>> \o [i \in 1..z |-> 0]
         \o <<0, 0, 0, 0, (bits \div 16777216) % 256, (bits \div 65536) % 256,
              (bits \div 256) % 256, bits % 256>>

ShaWordAt(bytes, i) ==
  <<bytes[i] * 256 + bytes[i + 1], bytes[i + 2] * 256 + bytes[i + 3]>>

\* one more word of the message schedule
ShaExtend(w) ==
  LET t == Len(w) + 1
  IN Append(w, WAdd(WAdd(SmallSigma1(w[t - 2]), w[t - 7]),
                    WAdd(SmallSigma0(w[t - 15]), w[t - 16])))

\* n more words (halving keeps the evaluation shallow; Len(w) evaluates w first)
RECURSIVE ShaExtendN(_, _)
ShaExtendN(w, n) ==
  IF n = 0 \/ Len(w) = 0 THEN w
  ELSE IF n = 1 THEN ShaExtend(w)
  ELSE ShaExtendN(ShaExtendN(w, n \div 2), n - (n \div 2))

\* the working variables a..h after a round with the temporaries t1, t2
ShaRotate(st, t1, t2) ==
  <<WAdd(t1, t2), st[1], st[2], st[3], WAdd(st[4], t1), st[5], st[6], st[7]>>

ShaRound(st, w, t) ==
  ShaRotate(st,
            WAdd(WAdd(WAdd(st[8], BigSigma1(st[5])),
                      WAdd(Ch(st[5], st[6], st[7]), ShaK[t])), w[t]),
            WAdd(BigSigma0(st[1]), Maj(st[1], st[2], st[3])))

\* rounds lo..hi
RECURSIVE ShaRounds(_, _, _, _)
ShaRounds(st, w, lo, hi) ==
  IF Len(st) # 8 THEN st
  ELSE IF lo = hi THEN ShaRound(st, w, lo)
  ELSE ShaRounds(ShaRounds(st, w, lo, (lo + hi) \div 2), w, ((lo + hi) \div 2) + 1, hi)

ShaAddState(h, st) == [i \in 1..8 |-> WAdd(h[i], st[i])]

ShaCompress(h, bytes, off) ==
  ShaAddState(h, ShaRounds(h,
    ShaExtendN([i \in 1..16 |-> ShaWordAt(bytes, off + 4 * (i - 1) + 1)], 48), 1, 64))

RECURSIVE ShaBlocks(_, _, _)
ShaBlocks(h, bytes, off) ==
  IF Len(h) # 8 \/ off >= Len(bytes) THEN h
  ELSE ShaBlocks(ShaCompress(h, bytes, off), bytes, off + 64)

\* the 32 bytes of the digest
ShaDigest(h) ==
  [i \in 1..32 |->
     IF i % 2 = 1 THEN h[((i - 1) \div 4) + 1][(((i - 1) % 4) \div 2) + 1] \div 256
     ELSE h[((i - 1) \div 4) + 1][(((i - 1) % 4) \div 2) + 1] % 256]

sha256(msg) == ShaDigest(ShaBlocks(ShaH0, ShaPad(msg), 0))

(***************************************************************************)
(* Strings.  A string that is hashed is the sequence of its character      *)
(* codes (ASCII); a watermark is a sequence of one-character strings.      *)
(***************************************************************************)
\* concatenation of the sequences ss[lo..hi], by halves
RECURSIVE ConcatRange(_, _, _)
ConcatRange(ss, lo, hi) ==
  IF lo > hi THEN <<>>
  ELSE IF lo = hi THEN ss[lo]
  ELSE ConcatRange(ss, lo, (lo + hi) \div 2) \o ConcatRange(ss, ((lo + hi) \div 2) + 1, hi)

Concat(ss) == ConcatRange(ss, 1, Len(ss))

\* the decimal digits of a natural number, as character codes
RECURSIVE DigitCodes(_)
DigitCodes(n) ==
  IF n < 10 THEN <<48 + n>> ELSE Append(DigitCodes(n \div 10), 48 + (n % 10))

\* Number.prototype.toString() of an integer
IntToString(n) == IF n < 0 THEN <<45>> \o DigitCodes(-n) ELSE DigitCodes(n)

\* Number.prototype.toString(2) of a byte
RECURSIVE ToBinary(_)
ToBinary(b) ==
  IF b < 2 THEN <<IF b = 1 THEN "1" ELSE "0">>
  ELSE Append(ToBinary(b \div 2), IF b % 2 = 1 THEN "1" ELSE "0")

\* String.prototype.padStart(n, '0')
PadStart(s, n) == IF Len(s) >= n THEN s ELSE [i \in 1..(n - Len(s)) |-> "0"] \o s

\* String.prototype.substring(0, n)
Substring0(s, n) == IF n >= Len(s) THEN s ELSE SubSeq(s, 1, n)

\* the remainder operator of JavaScript: the sign of the dividend
JsRem(a, b) == IF a >= 0 THEN a % b ELSE -((-a) % b)

(***************************************************************************)
(* CFG (src/app.js lines 38-58)                                            *)
(***************************************************************************)
\* 'RahasiaPolban'
SECRET_KEY == <<82, 97, 104, 97, 115, 105, 97, 80, 111, 108, 98, 97, 110>>
\* 'INIKUNCIPALSU'
FAKE_KEY == <<73, 78, 73, 75, 85, 78, 67, 73, 80, 65, 76, 83, 85>>
QIM_DELTA == 2
BER_THRESHOLD == 30
MAX_BPM_REF == 200

(***************************************************************************)
(* The mathematical functions (src/app.js, BAGIAN 4)                       *)
(***************************************************************************)
\* 0.70710678118 = 707106781180 / 10000^3
INV_SQRT2 == [neg |-> FALSE, mag |-> <<1180, 678, 7071>>, sc |-> 3]

\* data: a block of samples in hundredths.  half = data.length / 2; the typed
\* arrays have Math.trunc(half) elements, and what the loop stores past their
\* end for a block of odd length (i < half with half = k + 0.5) is dropped.
haarDWT(data) ==
  LET half == Len(data) \div 2
  IN [cA |-> [i \in 1..half |->
                DecMul(DecAdd(Num(data[2 * i - 1]), Num(data[2 * i])), INV_SQRT2)],
      cD |-> [i \in 1..half |->
                DecMul(DecSub(Num(data[2 * i - 1]), Num(data[2 * i])), INV_SQRT2)]]

\* a reconstruction that emits the two samples of each pair in the other order
haarIDWTSwapped(cA, cD) ==
  [k \in 1..(2 * Len(cA)) |->
     IF k % 2 = 1
     THEN DecMul(DecSub(cA[(k + 1) \div 2], cD[(k + 1) \div 2]), INV_SQRT2)
     ELSE DecMul(DecAdd(cA[k \div 2], cD[k \div 2]), INV_SQRT2)]

\* output[2i] = (cA[i] + cD[i]) * INV_SQRT2, output[2i+1] = (cA[i] - cD[i]) * INV_SQRT2
haarIDWT(cA, cD) ==
  [k \in 1..(2 * Len(cA)) |->
     IF k % 2 = 1
     THEN DecMul(DecAdd(cA[(k + 1) \div 2], cD[(k + 1) \div 2]), INV_SQRT2)
     ELSE DecMul(DecSub(cA[k \div 2], cD[k \div 2]), INV_SQRT2)]

\* a rounding to the multiple of 5 above n: (Math.floor(n / 5.0) + 1) * 5
robustRoundAbove(n) == DecInt((DecFloorDiv(n, 5) + 1) * 5)

\* a rounding to the multiple of 5 below n: Math.floor(n / 5.0) * 5
robustRoundBelow(n) == DecInt(DecFloorDiv(n, 5) * 5)

\* Math.floor((n / 5.0) + 0.5) * 5
robustRound(n) == DecInt(DecRoundDiv(n, 5) * 5)

\* rounded = Math.round(val / QIM_DELTA); (rounded % 2 !== 0) ? '1' : '0'
extractQIMBit(val) ==
  LET rounded == DecRoundDiv(val, QIM_DELTA)
  IN IF JsRem(rounded, 2) # 0 THEN "1" ELSE "0"

\* the 8 characters that byte i (from 0) of the digest contributes:
\* parseInt(hex.substring(2i, 2i + 2), 16).toString(2).padStart(8, '0');
\* past the 32 bytes of the digest the substring is empty, parseInt gives NaN
HexByteBits(hex, i) ==
  IF i < Len(hex) THEN PadStart(ToBinary(hex[i + 1]), 8)
  ELSE PadStart(<<"N", "a", "N">>, 8)

\* a hash input of the integer parts of the trend coefficients, not rounded
\* to multiples of 5
HashInputUnrounded(cA, seq, key) ==
  Concat([i \in 1..Len(cA) |-> IntToString(DecFloorDiv(cA[i], 1))])
    \o (IF Len(key) = 0 THEN SECRET_KEY ELSE key) \o IntToString(seq)

\* key: the key as character codes (an empty key is falsy: SECRET_KEY is used)
\* raw = s + secretKey + seq.toString(), s the rounded coefficients in a row
HashInput(cA, seq, key) ==
  Concat([i \in 1..Len(cA) |-> IntToString(DecFloorDiv(robustRound(cA[i]), 1))])
    \o (IF Len(key) = 0 THEN SECRET_KEY ELSE key) \o IntToString(seq)

\* the first numBits of the bits of Math.ceil(numBits / 8) bytes of hex
HexToBits(raw, hex, numBits) ==
  [bits |-> Substring0(Concat([i \in 1..((numBits + 7) \div 8) |->
                                 HexByteBits(hex, i - 1)]), numBits),
   raw |-> raw, hex |-> hex]

HashToBits(raw, numBits) == HexToBits(raw, sha256(raw), numBits)

getExpectedBits(cA, seq, numBits, key) == HashToBits(HashInput(cA, seq, key), numBits)

\* parseInt of one character of a bit string; -1 stands for NaN (also the
\* parseInt of the undefined that an index into an empty string gives)
ParseBit(ch) == IF ch = "0" THEN 0 ELSE IF ch = "1" THEN 1 ELSE -1

JsAbs(n) == IF n < 0 THEN -n ELSE n

\* an embedding that quantises without the parity step: Math.floor(val / QIM_DELTA) * QIM_DELTA
embedQIMNoParity(cD, watermarkBits) ==
  [i \in 1..Len(cD) |-> DecInt(DecFloorDiv(cD[i], QIM_DELTA) * QIM_DELTA)]

\* step = Math.floor(val / QIM_DELTA); if (Math.abs(step % 2) !== bit) step++;
\* result[i] = step * QIM_DELTA
embedQIMAttack(cD, watermarkBits) ==
  [i \in 1..Len(cD) |->
     LET bit == IF Len(watermarkBits) = 0 THEN -1
                ELSE ParseBit(watermarkBits[((i - 1) % Len(watermarkBits)) + 1])
         step == DecFloorDiv(cD[i], QIM_DELTA)
     IN DecInt((IF JsAbs(JsRem(step, 2)) # bit THEN step + 1 ELSE step) * QIM_DELTA)]

(***************************************************************************)
(* Verification (src/app.js, BAGIAN 5)                                     *)
(***************************************************************************)
\* the sum of (received[i] - processed[i]) ** 2 for i in lo..hi, by halves
RECURSIVE SumSqDiff(_, _, _, _)
SumSqDiff(received, processed, lo, hi) ==
  IF lo > hi THEN DecZero
  ELSE IF lo = hi
  THEN DecMul(DecSub(Num(received[lo]), Num(processed[lo])),
              DecSub(Num(received[lo]), Num(processed[lo])))
  ELSE DecAdd(SumSqDiff(received, processed, lo, (lo + hi) \div 2),
              SumSqDiff(received, processed, ((lo + hi) \div 2) + 1, hi))

\* mse = mseSum / received.length, kept as the pair (sum, n); NaN for an empty
\* block (0 / 0) and when processed is the shorter (undefined in the sum)
MeanSquaredError(received, processed) ==
  IF Len(received) = 0 \/ Len(processed) < Len(received)
  THEN [nan |-> TRUE, sum |-> DecZero, n |-> 0]
  ELSE [nan |-> FALSE, sum |-> SumSqDiff(received, processed, 1, Len(received)),
        n |-> Len(received)]

MseIsZero(mse) == ~mse.nan /\ DecIsZero(mse.sum)

\* psnr = mse === 0 ? 100.0 : 20 * Math.log10(MAX_BPM_REF / Math.sqrt(mse)).
\* The logarithm is kept by its arguments: form "log" stands for
\* 20 * log10(ref / sqrt(mse)).
Psnr(mse) ==
  IF MseIsZero(mse) THEN [form |-> "const", db |-> 100, ref |-> 0, mse |-> mse]
  ELSE [form |-> "log", db |-> 0, ref |-> MAX_BPM_REF, mse |-> mse]

\* 20 * log10(ref / sqrt(mse)) is +Infinity exactly when mse is 0, NaN when mse is
PsnrIsInfinite(psnr) == psnr.form = "log" /\ MseIsZero(psnr.mse)
PsnrIsNaN(psnr) == psnr.form = "log" /\ psnr.mse.nan

\* ber = (errors / numBits) * 100, kept as the pair (100 * errors, numBits);
\* NaN for numBits = 0
BitErrorRate(errors, numBits) ==
  IF numBits = 0 THEN [nan |-> TRUE, num |-> 0, den |-> 0]
  ELSE [nan |-> FALSE, num |-> errors * 100, den |-> numBits]

\* ber <= t (false for NaN)
BerLE(ber, t) == ~ber.nan /\ ber.num <= t * ber.den

\* a verdict with the strict comparison ber < CFG.BER_THRESHOLD
BerStatusStrict(ber) ==
  IF ~ber.nan /\ ber.num < BER_THRESHOLD * ber.den THEN "VALID" ELSE "INVALID"

\* status = ber <= CFG.BER_THRESHOLD ? 'VALID' : 'INVALID'
BerStatus(ber) == IF BerLE(ber, BER_THRESHOLD) THEN "VALID" ELSE "INVALID"

\* kunci = (mode === 'ATTACK_KEY') ? CFG.FAKE_KEY : CFG.SECRET_KEY
VerifyKey(mode) == IF mode = "ATTACK_KEY" THEN FAKE_KEY ELSE SECRET_KEY

\* the loop of step [3]: one bit per detail coefficient
ExtractBits(cD) ==
  [i \in 1..Len(cD) |->
     LET rounded == DecRoundDiv(cD[i], QIM_DELTA)
     IN IF JsRem(rounded, 2) # 0 THEN "1" ELSE "0"]

\* a count that compares nothing
CountErrorsNone(extracted, expected, numBits) == 0

\* errors: the positions i < numBits with extracted[i] !== expected[i]
CountErrors(extracted, expected, numBits) ==
  Cardinality({i \in 1..numBits : extracted[i] # expected[i]})

\* received, processed: blocks in hundredths.  The result, with the strings the
\* log shows (hash input, expected and extracted bits).
\* step [5]: the verdict and the returned object
VerifyConclusion(mse, exp, extracted, numBits, errors, ber) ==
  [status |-> BerStatus(ber), ber |-> ber, mse |-> mse, psnr |-> Psnr(mse),
   log |-> [raw |-> exp.raw, expected |-> exp.bits, extracted |-> extracted,
            errors |-> errors, numBits |-> numBits]]

\* step [4]: the comparison of the extracted with the expected bits
VerifyCompare(mse, exp, extracted, numBits, errors) ==
  VerifyConclusion(mse, exp, extracted, numBits, errors, BitErrorRate(errors, numBits))

\* steps [2] and [3]: the expected bits of the hash, the extracted bits of cD
VerifyBits(mse, exp, extracted, numBits) ==
  VerifyCompare(mse, exp, extracted, numBits, CountErrors(extracted, exp.bits, numBits))

\* step [1]: dwt is the {cA, cD} of the processed block
VerifyDWT(received, processed, seq, mode, dwt) ==
  VerifyBits(MeanSquaredError(received, processed),
             getExpectedBits(dwt.cA, seq, Len(dwt.cD), VerifyKey(mode)),
             ExtractBits(dwt.cD), Len(dwt.cD))

verifyWatermark(received, processed, seq, mode) ==
  VerifyDWT(received, processed, seq, mode, haarDWT(processed))

(***************************************************************************)
(* Attack simulation (src/app.js, BAGIAN 9)                                *)
(***************************************************************************)
AwgnModes == {"AWGN_RINGAN", "AWGN_SEDANG", "AWGN_KRITIS", "AWGN_HANCUR"}
AttackModes == {"NORMAL", "ATTACK_BPM", "ATTACK_KEY"} \cup AwgnModes

\* awgnSigma, in hundredths: 0.3, 0.6, 0.9, 1.2
AwgnSigma(mode) ==
  CASE mode = "AWGN_RINGAN" -> 30
    [] mode = "AWGN_SEDANG" -> 60
    [] mode = "AWGN_KRITIS" -> 90
    [] mode = "AWGN_HANCUR" -> 120

\* mean + z * sigma, where z = sqrt(-2 ln u1) * cos(2 pi u2) is what the two
\* Math.random() draws give
gaussianRandom(mean, sigma, z) == mean + z * sigma

\* an ATTACK_BPM that adds 30.0 to every other sample only
applyAttackOddSamples(data, mode, z) ==
  IF mode \in AwgnModes
  THEN [i \in 1..Len(data) |-> data[i] + gaussianRandom(0, AwgnSigma(mode), z[i])]
  ELSE IF mode = "ATTACK_BPM"
  THEN [i \in 1..Len(data) |-> IF i % 2 = 1 THEN data[i] + 3000 ELSE data[i]]
  ELSE [i \in 1..Len(data) |-> data[i]]

\* z: for the AWGN modes, the z of each sample's gaussianRandom call
applyAttack(data, mode, z) ==
  IF mode \in AwgnModes
  THEN [i \in 1..Len(data) |-> data[i] + gaussianRandom(0, AwgnSigma(mode), z[i])]
  ELSE IF mode = "ATTACK_BPM"
  THEN [i \in 1..Len(data) |-> data[i] + 3000]
  ELSE IF mode = "ATTACK_KEY"
  THEN [i \in 1..Len(data) |-> data[i]]
  ELSE [i \in 1..Len(data) |-> data[i]]

\* an attack simulation that draws its noise in every mode
RandomCallsAnyMode(data, mode) == 2 * Len(data)

\* the Math.random() calls of applyAttack(data, mode): two per sample in AWGN
RandomCalls(data, mode) == IF mode \in AwgnModes THEN 2 * Len(data) ELSE 0

(***************************************************************************)
(* State                                                                   *)
(***************************************************************************)
VARIABLES
  attackMode,    \* let attackMode: the simulation mode of the radio buttons
  stats,         \* let stats: packetCount, blockCount, validBlocks, invalidBlocks, allBPM
  blockHistory,  \* let blockHistory: the rows {seq, status, mode} of the block table
  dataHistory,   \* let dataHistory: the entries {seq, len} of the data table
  bpmHistory,    \* let bpmHistory: the BPM values of the live chart
  compStats,     \* let compStats: the values of the computation times
  inbox,         \* the MQTT messages still to be delivered, the next one first
  caught,        \* whether the handling of the last message ended in the catch
  arrays,        \* the arrays of the last secure message: the heap, and the
                 \* addresses of wmData and of what applyAttack returned
  dom,           \* the page: the rows of the data table, the number of lines of
                 \* the log area, the data of the BPM chart, whether the alert
                 \* bar is displayed, the text of the connection badge
  win,           \* the window: the time in seconds, the pending timers,
                 \* window._alertTimer, and the time of the last showAlert call
  mqtt,          \* the MQTT client: the events emitted, the subscribe calls
                 \* issued and those not yet acknowledged
  lastVerify,    \* <<>> or <<the last verifyWatermark call and what it returned>>
  randomCalls,   \* the number of Math.random() calls made so far
  call,          \* a call of one of the mathematical functions: its arguments
  ret            \* <<>> or <<what that call returned>>

vars == <<attackMode, stats, blockHistory, dataHistory, bpmHistory, compStats,
          inbox, caught, arrays, dom, win, mqtt, lastVerify, randomCalls, call, ret>>

(***************************************************************************)
(* Bounds of the model                                                     *)
(***************************************************************************)
MaxLen == 4          \* the longest block of the enumerated messages
MaxSeq == 1          \* the largest sequence number of a message
MaxNoiseLen == 2     \* the longest block whose AWGN noise is enumerated
MaxCoef == 1250      \* the numbers drawn are -MaxCoef..MaxCoef hundredths
MaxMessages == 2     \* the longest sequence of messages delivered to the monitor

\* the two sample values of the enumerated blocks: 72.00 and 75.00
SampleValues == {7200, 7500}

\* the standard normal z of a gaussianRandom call
ZValues == {-1, 0, 1}

RECURSIVE BlocksOfLen(_)
BlocksOfLen(n) ==
  IF n = 0 THEN {<<>>}
  ELSE {Append(b, v) : b \in BlocksOfLen(n - 1), v \in SampleValues}

SmallBlocks == UNION {BlocksOfLen(n) : n \in 0..MaxLen}

\* blocks of the reference length 16: sixteen samples of 75.0, a block that
\* carries its watermark for sequence number 1, and a block with 3 and 2 bit
\* errors for the sequence numbers 0 and 1, and a block that carries its
\* watermark for sequence number 0 and has 1 bit error after 30.0 is added to
\* every sample; a block of 20 samples with 3 bit errors of 10 for sequence
\* number 1; a block of 524 samples (262 bits)
ReferenceBlocks ==
  { [i \in 1..16 |-> 7500],
    [i \in 1..16 |-> IF i \in {4, 10} THEN 7200 ELSE 7500],
    [i \in 1..16 |-> IF i \in {4, 16} THEN 7200 ELSE 7500],
    [i \in 1..16 |-> IF i \in {1, 3, 5, 7, 15} THEN 7200 ELSE 7500],
    [i \in 1..20 |-> IF i = 1 THEN 7200 ELSE 7500],
    [i \in 1..524 |-> 7500] }

Blocks == SmallBlocks \cup ReferenceBlocks

\* p.comp_ms || 0: a number of milliseconds, or a string that reads as one
NoCompMs == [str |-> FALSE, ms |-> 0]

\* A payload as the handler reads it: json is whether JSON.parse accepts it,
\* and the fields are p.type, p.val || 0, p.data || [], p.seq || 0 and
\* p.comp_ms || 0.  The messages carry no raw field (p.raw || wmData).
Payload(json, type, val, data, seq, comp_ms) ==
  [json |-> json, type |-> type, val |-> val, data |-> data, seq |-> seq,
   comp_ms |-> comp_ms]

\* {type: 'secure', data, seq}; data is [] when the message has no data field
SecureMessages ==
  {Payload(TRUE, "secure", 0, b, s, NoCompMs) : b \in Blocks, s \in 0..MaxSeq}

(***************************************************************************)
(* The message handler of connectMQTT for a 'secure' message, with the     *)
(* functions it calls (src/app.js, BAGIAN 8 and 10)                        *)
(***************************************************************************)
MQTT_TOPIC == "polban/iot/jantung/syauqi"
MAX_ROWS == 50
MAX_BLOCKS == 50
MAX_COMP == 50
CHART_MAX == 60
ALL_BPM_MAX == 1000
ALL_BPM_KEEP == 500
LOG_MAX_LINES == 200
ALERT_BPM_LOW == 40
ALERT_BPM_HIGH == 180
ALERT_HIDE == 8      \* setTimeout(..., 8000), in seconds

\* the z of the gaussianRandom calls that applyAttack(data, mode) makes
NoiseDraws(data, mode) ==
  IF mode \in AwgnModes THEN [1..Len(data) -> ZValues] ELSE {<<>>}

\* an update that counts every block but never an invalid one
updateSecureValidOnly(st, result) ==
  [st EXCEPT !.validBlocks = IF result.status = "VALID" THEN @ + 1 ELSE @,
             !.blockCount = @ + 1]

\* stats as updateSecure(result, seq) leaves them
updateSecure(st, result) ==
  [st EXCEPT !.validBlocks = IF result.status = "VALID" THEN @ + 1 ELSE @,
             !.invalidBlocks = IF result.status = "VALID" THEN @ ELSE @ + 1,
             !.blockCount = @ + 1]

\* a history whose rows all carry the mode of its first row
pushBlockHistoryStale(hist, seq, result, mode) ==
  LET pushed == Append(hist, [seq |-> seq, status |-> result.status,
                              mode |-> IF hist = <<>> THEN mode ELSE hist[1].mode])
  IN IF Len(pushed) > MAX_ROWS THEN Tail(pushed) ELSE pushed

\* blockHistory.push({seq, status, mode, ...}); shift() past MAX_ROWS
pushBlockHistory(hist, seq, result, mode) ==
  LET pushed == Append(hist, [seq |-> seq, status |-> result.status, mode |-> mode])
  IN IF Len(pushed) > MAX_ROWS THEN Tail(pushed) ELSE pushed

\* returns at once for an empty raw block; dataHistory.push({seq, len});
\* shift() past MAX_BLOCKS
pushDataHistory(hist, seq, raw, watermarked) ==
  IF Len(raw) = 0 THEN hist
  ELSE LET len == IF Len(raw) < Len(watermarked) THEN Len(raw) ELSE Len(watermarked)
           pushed == Append(hist, [seq |-> seq, len |-> len])
       IN IF Len(pushed) > MAX_BLOCKS THEN Tail(pushed) ELSE pushed

\* the rows of the data table as pushDataHistory leaves them: one row per
\* sample is appended; when the pushed history is past MAX_BLOCKS, len rows
\* are removed from the top, len being the length of the block just pushed.
\* hist is dataHistory before the call.  (The placeholder row of the empty
\* table is removed before the first row is appended and is not counted.)
pushDataRows(rows, hist, seq, raw, watermarked) ==
  IF Len(raw) = 0 THEN rows
  ELSE LET len == IF Len(raw) < Len(watermarked) THEN Len(raw) ELSE Len(watermarked)
           added == rows \o [i \in 1..len |-> [seq |-> seq, sample |-> i]]
       IN IF Len(hist) + 1 > MAX_BLOCKS
          THEN SubSeq(added, len + 1, Len(added))
          ELSE added

\* the number of lines of result.log: every log.push of verifyWatermark is
\* one line, one per detail coefficient and two more outside NORMAL mode
VerifyLogLines(numBits, mode) == 21 + numBits + (IF mode = "NORMAL" THEN 0 ELSE 2)

\* the number of lines of the log area (textContent.split('\n').length) as
\* appendLog(text) leaves it, for a text of textLines lines: the area is cut
\* to its last LOG_MAX_LINES lines first, then '\n' + text + '\n' is appended
appendLog(lines, textLines) ==
  (IF lines > LOG_MAX_LINES THEN LOG_MAX_LINES ELSE lines) + textLines + 1

\* compMs > 0, for a number and for a string that reads as a number
CompMsPositive(compMs) == compMs.ms > 0

\* compStats as updateCompTime(compMs) leaves them: compStats.values.push(compMs)
\* and shift() past MAX_COMP come before compMs.toFixed(2); avg and max are
\* functions of the values
updateCompTime(cs, compMs) ==
  LET pushed == Append(cs.values, compMs)
  IN [cs EXCEPT !.values = IF Len(pushed) > MAX_COMP THEN Tail(pushed) ELSE pushed]

\* compMs.toFixed(2) of updateCompTime throws a TypeError for a string
CompTimeThrows(compMs) == compMs.str

\* applyAttack on the heap of arrays: data is at address ref; every branch
\* returns a new array (data.map(...) or [...data]), allocated after the last
applyAttackInPlace(heap, ref, mode, z) ==
  [heap |-> [heap EXCEPT ![ref] = applyAttack(heap[ref], mode, z)], ref |-> ref]

applyAttackHeap(heap, ref, mode, z) ==
  [heap |-> Append(heap, applyAttack(heap[ref], mode, z)), ref |-> Len(heap) + 1]

\* the 'secure' branch of the handler; JSON.parse has put wmData at address 1
HandleSecure ==
  /\ inbox # <<>>
  /\ inbox[1].json
  /\ inbox[1].type = "secure"
  /\ attackMode \in AwgnModes => Len(inbox[1].data) <= MaxNoiseLen
  /\ \E z \in NoiseDraws(inbox[1].data, attackMode) :
       \E att \in {applyAttackHeap(<<inbox[1].data>>, 1, attackMode, z)} :
         LET wmData == att.heap[1]
             rawData == wmData
             seqNum == inbox[1].seq
             processed == att.heap[att.ref]
         IN \E result \in {verifyWatermark(wmData, processed, seqNum, attackMode)} :
              /\ arrays' = [heap |-> att.heap, wmData |-> 1, processed |-> att.ref]
              /\ lastVerify' = <<[received |-> wmData, processed |-> processed,
                                  seq |-> seqNum, mode |-> attackMode,
                                  result |-> result]>>
              /\ stats' = updateSecure(stats, result)
              /\ blockHistory' = pushBlockHistory(blockHistory, seqNum, result, attackMode)
              /\ dataHistory' = pushDataHistory(dataHistory, seqNum, rawData, wmData)
              /\ dom' = [dom EXCEPT
                          !.dataRows = pushDataRows(@, dataHistory, seqNum, rawData, wmData),
                          !.logLines = appendLog(@, VerifyLogLines(result.log.numBits,
                                                                   attackMode))]
              /\ randomCalls' = randomCalls + RandomCalls(inbox[1].data, attackMode)
  /\ compStats' = IF CompMsPositive(inbox[1].comp_ms)
                  THEN updateCompTime(compStats, inbox[1].comp_ms) ELSE compStats
  /\ caught' = (CompMsPositive(inbox[1].comp_ms) /\ CompTimeThrows(inbox[1].comp_ms))
  /\ inbox' = Tail(inbox)
  /\ UNCHANGED <<attackMode, bpmHistory, win, mqtt, call, ret>>

\* a chart that refuses new values once it is full
pushBPMChartKeepOldest(hist, val) ==
  IF Len(hist) >= CHART_MAX THEN hist ELSE Append(hist, val)

\* a badge that shows 'Disconnected' for every status but 'online'
setMQTTOfflineDefault(status) ==
  IF status = "online" THEN "Connected" ELSE "Disconnected"

\* the text of the connection badge as setMQTT(status) leaves it
setMQTT(status) ==
  IF status = "online" THEN "Connected"
  ELSE IF status = "offline" THEN "Disconnected"
  ELSE "Connecting..."

\* bpmHistory.push(val); shift() past CHART_MAX
pushBPMChart(hist, val) ==
  LET pushed == Append(hist, val)
  IN IF Len(pushed) > CHART_MAX THEN Tail(pushed) ELSE pushed

\* an update that counts a live packet as a block too
updateLiveBPMAsBlock(st, val) ==
  [st EXCEPT !.packetCount = @ + 1, !.blockCount = @ + 1,
             !.allBPM = Append(@, val)]

\* stats as updateLiveBPM(val) leaves them: packetCount++, allBPM.push(val),
\* and past ALL_BPM_MAX values allBPM.slice(-ALL_BPM_KEEP)
updateLiveBPM(st, val) ==
  LET pushed == Append(st.allBPM, val)
  IN [st EXCEPT !.packetCount = @ + 1,
                !.allBPM = IF Len(pushed) > ALL_BPM_MAX
                           THEN SubSeq(pushed, Len(pushed) - ALL_BPM_KEEP + 1, Len(pushed))
                           ELSE pushed]

\* whether updateLiveBPM(val) calls showAlert: val < ALERT_BPM_LOW or
\* val > ALERT_BPM_HIGH (val in hundredths)
BpmAlert(val) == val < ALERT_BPM_LOW * 100 \/ val > ALERT_BPM_HIGH * 100

\* a showAlert that starts its timer without clearing the one before
showAlertNoClear(w) ==
  [w EXCEPT !.timers = @ \cup {[id |-> w.nextId, due |-> w.now + ALERT_HIDE]},
            !.alertTimer = w.nextId, !.nextId = @ + 1, !.shownAt = w.now]

\* the window as showAlert leaves it: clearTimeout(window._alertTimer);
\* window._alertTimer = setTimeout(hide, 8000)
showAlert(w) ==
  [w EXCEPT !.timers = {t \in @ : t.id # w.alertTimer}
                         \cup {[id |-> w.nextId, due |-> w.now + ALERT_HIDE]},
            !.alertTimer = w.nextId, !.nextId = @ + 1, !.shownAt = w.now]

\* the 'live' branch of the handler: updateLiveBPM(p.val || 0)
HandleLive ==
  /\ inbox # <<>>
  /\ inbox[1].json
  /\ inbox[1].type = "live"
  /\ bpmHistory' = pushBPMChart(bpmHistory, inbox[1].val)
  /\ stats' = updateLiveBPM(stats, inbox[1].val)
  /\ dom' = [dom EXCEPT !.chartData = bpmHistory',
                        !.alertShown = IF BpmAlert(inbox[1].val) THEN TRUE ELSE @]
  /\ win' = IF BpmAlert(inbox[1].val) THEN showAlert(win) ELSE win
  /\ caught' = FALSE
  /\ inbox' = Tail(inbox)
  /\ UNCHANGED <<attackMode, blockHistory, dataHistory, compStats, arrays, mqtt,
                 lastVerify, randomCalls, call, ret>>

\* a message of another type: neither branch of the handler is taken
HandleOther ==
  /\ inbox # <<>>
  /\ inbox[1].json
  /\ inbox[1].type \notin {"live", "secure"}
  /\ caught' = FALSE
  /\ inbox' = Tail(inbox)
  /\ UNCHANGED <<attackMode, stats, blockHistory, dataHistory, bpmHistory, compStats,
                 arrays, dom, win, mqtt, lastVerify, randomCalls, call, ret>>

\* a payload that JSON.parse rejects: the SyntaxError goes to the catch
HandleInvalid ==
  /\ inbox # <<>>
  /\ ~inbox[1].json
  /\ caught' = TRUE
  /\ inbox' = Tail(inbox)
  /\ UNCHANGED <<attackMode, stats, blockHistory, dataHistory, bpmHistory, compStats,
                 arrays, dom, win, mqtt, lastVerify, randomCalls, call, ret>>

\* the change handler of the attackMode radio buttons
SetAttackMode(m) ==
  /\ inbox # <<>>
  /\ attackMode' = m
  /\ UNCHANGED <<stats, blockHistory, dataHistory, bpmHistory, compStats, inbox,
                 caught, arrays, dom, win, mqtt, lastVerify, randomCalls, call, ret>>

NoCall ==
  [fn |-> "none", x |-> DecZero, cD |-> <<>>, bits |-> <<>>, block |-> <<>>,
   other |-> <<>>, seq |-> 0, delta |-> QIM_DELTA]

\* the state of the page once the script has run: the values of BAGIAN 2
InitState ==
  /\ attackMode = "NORMAL"
  /\ stats = [packetCount |-> 0, blockCount |-> 0, validBlocks |-> 0,
              invalidBlocks |-> 0, allBPM |-> <<>>]
  /\ blockHistory = <<>>
  /\ dataHistory = <<>>
  /\ bpmHistory = <<>>
  /\ compStats = [values |-> <<>>]
  /\ caught = FALSE
  /\ arrays = [heap |-> <<>>, wmData |-> 0, processed |-> 0]
  /\ dom = [dataRows |-> <<>>, logLines |-> 1, chartData |-> <<>>,
            alertShown |-> FALSE, mqttText |-> setMQTT("")]
  /\ win = [now |-> 0, timers |-> {}, alertTimer |-> 0, nextId |-> 1, shownAt |-> 0]
  /\ mqtt = [events |-> 0, last |-> "none", subscribes |-> 0, pending |-> 0,
             topic |-> ""]
  /\ lastVerify = <<>>
  /\ randomCalls = 0

InitVerify ==
  /\ InitState
  /\ inbox \in {<<m>> : m \in SecureMessages}
  /\ call = NoCall
  /\ ret = <<>>

NextVerify ==
  \/ HandleSecure
  \/ \E m \in AttackModes : SetAttackMode(m)

\* one secure message, in any mode the user has selected before it arrives
SpecVerify == InitVerify /\ [][NextVerify]_vars


(***************************************************************************)
(* The monitor over a sequence of messages of every kind                   *)
(***************************************************************************)
\* {type: 'live', val}, val in hundredths; val is 0 when the message has none
LiveMessages == {Payload(TRUE, "live", v, <<>>, 0, NoCompMs) : v \in {0, 7200}}

\* secure messages with and without data, with a comp_ms that is absent, the
\* number 12 or the string "12", and with the sequence numbers 0 and 5
TimedMessages ==
  {Payload(TRUE, "secure", 0, <<>>, 0, NoCompMs)}
  \cup {Payload(TRUE, "secure", 0, <<7200, 7200>>, 0, c) :
          c \in {NoCompMs, [str |-> FALSE, ms |-> 12], [str |-> TRUE, ms |-> 12]}}
  \cup {Payload(TRUE, "secure", 0, <<7200, 7200>>, 5, NoCompMs)}

\* a message of a type the handler has no branch for, and a payload that is
\* not JSON
OtherMessages == {Payload(TRUE, "status", 0, <<>>, 0, NoCompMs)}
InvalidMessages == {Payload(FALSE, "", 0, <<>>, 0, NoCompMs)}

MonitorMessages == LiveMessages \cup TimedMessages \cup OtherMessages \cup InvalidMessages

RECURSIVE MessageQueues(_)
MessageQueues(n) ==
  IF n = 0 THEN {<<>>}
  ELSE MessageQueues(n - 1)
       \cup {Append(q, m) : q \in {qq \in MessageQueues(n - 1) : Len(qq) = n - 1},
                            m \in MonitorMessages}

\* the modes selected while the monitor runs
MonitorModes == {"NORMAL", "ATTACK_BPM", "ATTACK_KEY"}

InitMonitor ==
  /\ InitState
  /\ inbox \in MessageQueues(MaxMessages)
  /\ call = NoCall
  /\ ret = <<>>

NextMonitor ==
  \/ HandleSecure
  \/ HandleLive
  \/ HandleOther
  \/ HandleInvalid
  \/ \E m \in MonitorModes : SetAttackMode(m)

\* up to MaxMessages messages of any kind, delivered in order
SpecMonitor == InitMonitor /\ [][NextMonitor]_vars

\* ---------------------------------------------------------------------
\* Long runs of the monitor: more messages than the histories keep

MaxBlocks == 51
MaxLive == 62

\* a block of n samples of 72.00
HistoryBlock(n) == [i \in 1..n |-> 7200]

\* MaxBlocks secure messages with the sequence numbers 0, 1, 2, ...; the first
\* block has a samples, the last one b samples and the others 2
SecureQueue(a, b) ==
  [i \in 1..MaxBlocks |->
     Payload(TRUE, "secure", 0,
             HistoryBlock(IF i = 1 THEN a ELSE IF i = MaxBlocks THEN b ELSE 2),
             i - 1, NoCompMs)]

\* MaxLive live messages with the distinct values 61, 62, 63, ...
LiveQueue ==
  [i \in 1..MaxLive |-> Payload(TRUE, "live", 6000 + 100 * i, <<>>, 0, NoCompMs)]

HistoryQueues == {SecureQueue(a, b) : a \in {2, 4}, b \in {2, 4}} \cup {LiveQueue}

InitHistory ==
  /\ InitState
  /\ inbox \in HistoryQueues
  /\ call = NoCall
  /\ ret = <<>>

NextHistory ==
  \/ HandleSecure
  \/ HandleLive

\* a long run of secure messages or of live messages in NORMAL mode
SpecHistory == InitHistory /\ [][NextHistory]_vars

\* ---------------------------------------------------------------------
\* The alert bar and its hide timer.  Time is counted in seconds.

MaxTime == 12
MaxAlerts == 3

\* live values below, inside and above the alert limits
AlertValues == {0, 7200, 19000}

RECURSIVE AlertQueues(_)
AlertQueues(n) ==
  IF n = 0 THEN {<<>>}
  ELSE AlertQueues(n - 1)
       \cup {Append(q, Payload(TRUE, "live", v, <<>>, 0, NoCompMs)) :
               q \in {qq \in AlertQueues(n - 1) : Len(qq) = n - 1}, v \in AlertValues}

\* one second passes
Tick ==
  /\ win.now < MaxTime
  /\ win' = [win EXCEPT !.now = @ + 1]
  /\ UNCHANGED <<attackMode, stats, blockHistory, dataHistory, bpmHistory, compStats,
                 inbox, caught, arrays, dom, mqtt, lastVerify, randomCalls, call, ret>>

\* a timer that is due runs its callback, which hides the alert bar; a timer
\* never runs before it is due and may run late
TimerFires ==
  \E t \in win.timers :
    /\ t.due <= win.now
    /\ win' = [win EXCEPT !.timers = @ \ {t}]
    /\ dom' = [dom EXCEPT !.alertShown = FALSE]
    /\ UNCHANGED <<attackMode, stats, blockHistory, dataHistory, bpmHistory, compStats,
                   inbox, caught, arrays, mqtt, lastVerify, randomCalls, call, ret>>

\* a click on the close button hides the alert bar; the timer stays set
CloseAlert ==
  /\ dom' = [dom EXCEPT !.alertShown = FALSE]
  /\ UNCHANGED <<attackMode, stats, blockHistory, dataHistory, bpmHistory, compStats,
                 inbox, caught, arrays, win, mqtt, lastVerify, randomCalls, call, ret>>

InitAlert ==
  /\ InitState
  /\ inbox \in AlertQueues(MaxAlerts)
  /\ call = NoCall
  /\ ret = <<>>

NextAlert ==
  \/ HandleLive
  \/ Tick
  \/ TimerFires
  \/ CloseAlert

\* up to MaxAlerts live messages arriving at any times within MaxTime seconds
SpecAlert == InitAlert /\ [][NextAlert]_vars

\* ---------------------------------------------------------------------
\* The events of the MQTT client

MaxEvents == 5

MqttEvents == {"connect", "error", "close", "reconnect"}

\* the handlers connectMQTT registers: 'connect' sets the badge online and
\* subscribes to CFG.MQTT_TOPIC, 'error' and 'close' set it offline,
\* 'reconnect' sets it to connecting
MqttEvent(e) ==
  /\ mqtt.events < MaxEvents
  /\ mqtt' = IF e = "connect"
             THEN [mqtt EXCEPT !.events = @ + 1, !.last = e, !.subscribes = @ + 1,
                               !.pending = @ + 1, !.topic = MQTT_TOPIC]
             ELSE [mqtt EXCEPT !.events = @ + 1, !.last = e]
  /\ dom' = [dom EXCEPT !.mqttText = setMQTT(IF e = "connect" THEN "online"
                                             ELSE IF e \in {"error", "close"}
                                                  THEN "offline"
                                                  ELSE "")]
  /\ UNCHANGED <<attackMode, stats, blockHistory, dataHistory, bpmHistory, compStats,
                 inbox, caught, arrays, win, lastVerify, randomCalls, call, ret>>

\* the callback of a subscribe: without an error one system line is logged
SubscribeAck(err) ==
  /\ mqtt.pending > 0
  /\ mqtt' = [mqtt EXCEPT !.pending = @ - 1]
  /\ dom' = IF err THEN dom ELSE [dom EXCEPT !.logLines = appendLog(@, 1)]
  /\ UNCHANGED <<attackMode, stats, blockHistory, dataHistory, bpmHistory, compStats,
                 inbox, caught, arrays, win, lastVerify, randomCalls, call, ret>>

InitMqtt ==
  /\ InitState
  /\ inbox = <<>>
  /\ call = NoCall
  /\ ret = <<>>

NextMqtt ==
  \/ \E e \in MqttEvents : MqttEvent(e)
  \/ \E err \in BOOLEAN : SubscribeAck(err)

\* up to MaxEvents connection events in any order
SpecMqtt == InitMqtt /\ [][NextMqtt]_vars
(***************************************************************************)
(* Calls of the mathematical functions (src/app.js, BAGIAN 4)              *)
(***************************************************************************)
\* the numbers -MaxCoef/100 .. MaxCoef/100 in steps of 0.01
Hundredths == (-MaxCoef)..MaxCoef

\* detail coefficients of the calls with more than one coefficient
PairCoefs == {-300, -100, -50, 0, 100, 250}
BitStrings == {<<"0">>, <<"1">>, <<"0", "0">>, <<"0", "1">>, <<"1", "0">>, <<"1", "1">>}

\* blocks with a zero, a negative and a large sample
WideBlocks == {<<a, b>> : a \in {-155, 0, 7263, 20000}, b \in {-155, 0, 7263, 20000}}

RoundCalls ==
  {[fn |-> "robustRound", x |-> Num(h), cD |-> <<>>, bits |-> <<>>, block |-> <<>>,
    other |-> <<>>, seq |-> 0, delta |-> QIM_DELTA] :
     h \in Hundredths}

QimCalls ==
  {[fn |-> "qim", x |-> DecZero, cD |-> <<Num(h)>>, bits |-> <<b>>, block |-> <<>>,
    other |-> <<>>, seq |-> 0, delta |-> QIM_DELTA] :
     h \in Hundredths, b \in {"0", "1"}}
  \cup
  {[fn |-> "qim", x |-> DecZero, cD |-> <<Num(a), Num(b)>>, bits |-> w, block |-> <<>>,
    other |-> <<>>, seq |-> 0, delta |-> QIM_DELTA] :
     a \in PairCoefs, b \in PairCoefs, w \in BitStrings}
  \cup
  {[fn |-> "qim", x |-> DecZero, cD |-> <<Num(a), Num(b), Num(a)>>, bits |-> w,
    block |-> <<>>, other |-> <<>>, seq |-> 0, delta |-> QIM_DELTA] :
     a \in {-100, 150}, b \in {-100, 150}, w \in BitStrings}

HaarCalls ==
  {[fn |-> "haar", x |-> DecZero, cD |-> <<>>, bits |-> <<>>, block |-> b,
    other |-> <<>>, seq |-> 0, delta |-> QIM_DELTA] :
     b \in SmallBlocks \cup WideBlocks \cup {bb \in ReferenceBlocks : Len(bb) <= 20}}

\* verifyWatermark called on two blocks of any two lengths up to 3
VerifyCalls ==
  {[fn |-> "verify", x |-> DecZero, cD |-> <<>>, bits |-> <<>>, block |-> a,
    other |-> b, seq |-> s, delta |-> QIM_DELTA] :
     a \in {bb \in SmallBlocks : Len(bb) <= 3},
     b \in {bb \in SmallBlocks : Len(bb) <= 3}, s \in {0}}

\* two processed blocks of the same length, with samples 0.1 apart and 3 apart
JitterValues == {7200, 7210, 7500, 7510}
JitterPairs == {<<a, b>> : a \in JitterValues, b \in JitterValues}
\* two blocks whose rounded trend coefficients are (10, 55) and (105, 5)
DigitBlocks == {<<700, 700, 3900, 3900>>, <<7400, 7400, 350, 350>>}
StabilityBlocks == JitterPairs \cup {b \o b : b \in JitterPairs} \cup DigitBlocks
StabilityCalls ==
  {[fn |-> "stability", x |-> DecZero, cD |-> <<>>, bits |-> <<>>, block |-> p[1],
    other |-> p[2], seq |-> 0, delta |-> QIM_DELTA] :
     p \in {q \in StabilityBlocks \X StabilityBlocks : Len(q[1]) = Len(q[2])}}

\* extractQIMBit called with CFG.QIM_DELTA set to delta
DeltaValues == {-QIM_DELTA, 0, QIM_DELTA}
ExtractCalls ==
  {[fn |-> "extract", x |-> Num(h), cD |-> <<>>, bits |-> <<>>, block |-> <<>>,
    other |-> <<>>, seq |-> 0, delta |-> d] :
     h \in {hh \in Hundredths : hh % 53 = 0}, d \in DeltaValues}

\* extractQIMBit(val) for a CFG.QIM_DELTA of any sign: Math.round(val / delta)
\* is +-Infinity or NaN for delta 0, its remainder is NaN and NaN !== 0
extractQIMBitDelta(val, delta) ==
  IF delta = 0 THEN "1"
  ELSE IF JsRem(IF delta > 0 THEN DecRoundDiv(val, delta)
                ELSE DecRoundDiv(DecNeg(val), -delta), 2) # 0
       THEN "1" ELSE "0"

\* robustRound(x)
CallRobustRound ==
  /\ call.fn = "robustRound"
  /\ ret = <<>>
  /\ ret' = <<robustRound(call.x)>>
  /\ UNCHANGED <<attackMode, stats, blockHistory, dataHistory, bpmHistory, compStats,
                 inbox, caught, arrays, dom, win, mqtt, lastVerify, randomCalls, call>>

\* embedQIMAttack(cD, bits)
CallEmbedQIM ==
  /\ call.fn = "qim"
  /\ ret = <<>>
  /\ ret' = <<embedQIMAttack(call.cD, call.bits)>>
  /\ UNCHANGED <<attackMode, stats, blockHistory, dataHistory, bpmHistory, compStats,
                 inbox, caught, arrays, dom, win, mqtt, lastVerify, randomCalls, call>>

\* haarIDWT(cA, cD) of the {cA, cD} that haarDWT(block) returns
CallHaar ==
  /\ call.fn = "haar"
  /\ ret = <<>>
  /\ LET dwt == haarDWT(call.block)
     IN ret' = <<haarIDWT(dwt.cA, dwt.cD)>>
  /\ UNCHANGED <<attackMode, stats, blockHistory, dataHistory, bpmHistory, compStats,
                 inbox, caught, arrays, dom, win, mqtt, lastVerify, randomCalls, call>>

\* verifyWatermark(received, processed, seq, 'NORMAL')
CallVerify ==
  /\ call.fn = "verify"
  /\ ret = <<>>
  /\ ret' = <<verifyWatermark(call.block, call.other, call.seq, "NORMAL")>>
  /\ UNCHANGED <<attackMode, stats, blockHistory, dataHistory, bpmHistory, compStats,
                 inbox, caught, arrays, dom, win, mqtt, lastVerify, randomCalls, call>>

\* extractQIMBit(x) under the configured delta
CallExtract ==
  /\ call.fn = "extract"
  /\ ret = <<>>
  /\ ret' = <<extractQIMBitDelta(call.x, call.delta)>>
  /\ UNCHANGED <<attackMode, stats, blockHistory, dataHistory, bpmHistory, compStats,
                 inbox, caught, arrays, dom, win, mqtt, lastVerify, randomCalls, call>>

\* verifyWatermark of two processed blocks with the same sequence number and key
CallStability ==
  /\ call.fn = "stability"
  /\ ret = <<>>
  /\ ret' = <<[a |-> verifyWatermark(call.block, call.block, call.seq, "NORMAL"),
               b |-> verifyWatermark(call.other, call.other, call.seq, "NORMAL")]>>
  /\ UNCHANGED <<attackMode, stats, blockHistory, dataHistory, bpmHistory, compStats,
                 inbox, caught, arrays, dom, win, mqtt, lastVerify, randomCalls, call>>

\* applyAttack of src/unnamed/part_000: 'NOISE' adds 0.4 to the samples at
\* even indexes and subtracts it at odd indexes, 'ATTACK' adds 30
P0_applyAttack(data, mode) ==
  IF mode = "NOISE"
  THEN [i \in 1..Len(data) |-> IF (i - 1) % 2 = 0 THEN data[i] + 40 ELSE data[i] - 40]
  ELSE IF mode = "ATTACK"
  THEN [i \in 1..Len(data) |-> data[i] + 3000]
  ELSE [i \in 1..Len(data) |-> data[i]]

\* haarDWT of src/unnamed/part_000: the same statements and the same
\* INV_SQRT2 as in src/app.js
P0_haarDWT(data) == haarDWT(data)

\* an expected-bits function that hashes with the fake key
P0_getExpectedBitsFakeKey(cA, seq, numBits) ==
  HashToBits(Concat([i \in 1..Len(cA) |-> IntToString(DecFloorDiv(robustRound(cA[i]), 1))])
               \o FAKE_KEY \o IntToString(seq), numBits)

\* getExpectedBits(cA, seq, numBits) of src/unnamed/part_000: no key
\* parameter, raw = s + CFG.SECRET_KEY + seq.toString()
P0_getExpectedBits(cA, seq, numBits) ==
  HashToBits(Concat([i \in 1..Len(cA) |-> IntToString(DecFloorDiv(robustRound(cA[i]), 1))])
               \o SECRET_KEY \o IntToString(seq), numBits)

\* verifyWatermark of src/unnamed/part_000, by its steps: mse and psnr, the
\* transform of the processed block, the expected bits for numBits = cD.length,
\* the extraction loop, the error count, ber and status
P0_VerifySteps(mse, exp, extracted, numBits) ==
  LET errors == Cardinality({i \in 1..numBits : extracted[i] # exp.bits[i]})
      ber == BitErrorRate(errors, numBits)
  IN [status |-> IF BerLE(ber, BER_THRESHOLD) THEN "VALID" ELSE "INVALID",
      ber |-> ber, mse |-> mse, psnr |-> Psnr(mse),
      log |-> [raw |-> exp.raw, expected |-> exp.bits, extracted |-> extracted,
               errors |-> errors, numBits |-> numBits]]

P0_VerifyDWT(received, processed, seq, dwt) ==
  P0_VerifySteps(MeanSquaredError(received, processed),
                 P0_getExpectedBits(dwt.cA, seq, Len(dwt.cD)),
                 [i \in 1..Len(dwt.cD) |->
                    IF JsRem(DecRoundDiv(dwt.cD[i], QIM_DELTA), 2) # 0 THEN "1" ELSE "0"],
                 Len(dwt.cD))

P0_verifyWatermark(received, processed, seq, mode) ==
  P0_VerifyDWT(received, processed, seq, P0_haarDWT(processed))

\* stats as updateSecure(result, seq) of src/unnamed/part_000 leaves them
P0_updateSecure(st, result) ==
  LET counted == IF result.status = "VALID"
                 THEN [st EXCEPT !.validBlocks = @ + 1]
                 ELSE [st EXCEPT !.invalidBlocks = @ + 1]
  IN [counted EXCEPT !.blockCount = @ + 1]

\* stats as updateLiveBPM(val) of src/unnamed/part_000 leaves them
P0_updateLiveBPM(st, val) ==
  LET pushed == Append(st.allBPM, val)
  IN [st EXCEPT !.packetCount = @ + 1,
                !.allBPM = IF Len(pushed) > ALL_BPM_MAX
                           THEN SubSeq(pushed, Len(pushed) - ALL_BPM_KEEP + 1, Len(pushed))
                           ELSE pushed]

\* the message handler of src/unnamed/part_000 on the message msg, with the
\* statistics st and the mode selected: the statistics it leaves and the
\* result of the verification it ran, if any
P0_onMessage(st, mode, msg) ==
  IF ~msg.json THEN [stats |-> st, result |-> <<>>]
  ELSE IF msg.type = "live"
  THEN [stats |-> P0_updateLiveBPM(st, msg.val), result |-> <<>>]
  ELSE IF msg.type = "secure"
  THEN LET result == P0_verifyWatermark(msg.data, P0_applyAttack(msg.data, mode),
                                        msg.seq, mode)
       IN [stats |-> P0_updateSecure(st, result), result |-> <<result>>]
  ELSE [stats |-> st, result |-> <<>>]

\* applyAttack called in the modes NORMAL and NOISE
AttackCalls ==
  {[fn |-> "attack", x |-> DecZero, cD |-> <<>>, bits |-> <<>>, block |-> b,
    other |-> <<>>, seq |-> 0, delta |-> QIM_DELTA] : b \in SmallBlocks}

\* applyAttack(data, mode) of both receivers
CallAttack ==
  /\ call.fn = "attack"
  /\ ret = <<>>
  /\ ret' = <<[normal |-> applyAttack(call.block, "NORMAL", <<>>),
               noise |-> applyAttack(call.block, "NOISE", <<>>),
               p0normal |-> P0_applyAttack(call.block, "NORMAL"),
               p0noise |-> P0_applyAttack(call.block, "NOISE")]>>
  /\ UNCHANGED <<attackMode, stats, blockHistory, dataHistory, bpmHistory, compStats,
                 inbox, caught, arrays, dom, win, mqtt, lastVerify, randomCalls, call>>

InitMath ==
  /\ InitState
  /\ inbox = <<>>
  /\ call \in RoundCalls \cup QimCalls \cup HaarCalls \cup VerifyCalls \cup ExtractCalls
             \cup StabilityCalls \cup AttackCalls
  /\ ret = <<>>

NextMath ==
  \/ CallRobustRound
  \/ CallEmbedQIM
  \/ CallHaar
  \/ CallVerify
  \/ CallExtract
  \/ CallStability
  \/ CallAttack

\* one call of a mathematical function on arguments drawn from the bounded sets
SpecMath == InitMath /\ [][NextMath]_vars

(***************************************************************************)
(* Properties of the verification (SpecVerify)                             *)
(***************************************************************************)
\* C1, as the specification states it: every even-length block verified against
\* itself in NORMAL mode (no distortion) gets ber == 0 and status VALID.
C1_ReflexivityAsStated ==
  lastVerify # <<>> =>
    LET v == lastVerify[1]
    IN (v.mode = "NORMAL" /\ Len(v.received) % 2 = 0 /\ v.processed = v.received)
         => (~v.result.ber.nan /\ v.result.ber.num = 0 /\ v.result.status = "VALID")

\* C1, as the code has it: an even-length block verified against itself in NORMAL
\* mode gets ber == 0 and status VALID exactly when it has at least one detail
\* coefficient and the bits extracted from its detail coefficients equal the bits
\* expected from the hash of its rounded trend coefficients, the key and the
\* sequence number.  A non-empty block has mse == 0 and psnr == 100 whatever the
\* verdict.
C1_SelfVerification ==
  lastVerify # <<>> =>
    LET v == lastVerify[1]
    IN (v.mode = "NORMAL" /\ Len(v.received) % 2 = 0 /\ v.processed = v.received)
         => /\ (~v.result.ber.nan /\ v.result.ber.num = 0 /\ v.result.status = "VALID")
               <=> (v.result.log.numBits > 0
                    /\ v.result.log.extracted = v.result.log.expected)
            /\ Len(v.received) > 0
                 => (MseIsZero(v.result.mse) /\ v.result.psnr.form = "const"
                     /\ v.result.psnr.db = 100)

\* a 16-sample block, verified against itself in NORMAL mode, is INVALID
C1_Witness ==
  /\ lastVerify # <<>>
  /\ lastVerify[1].mode = "NORMAL"
  /\ lastVerify[1].processed = lastVerify[1].received
  /\ Len(lastVerify[1].received) = 16
  /\ lastVerify[1].result.log.extracted # lastVerify[1].result.log.expected
  /\ lastVerify[1].result.status = "INVALID"

\* C2: the status is VALID exactly when ber <= BER_THRESHOLD (30) and INVALID
\* otherwise; a ber equal to the threshold is VALID; with an 8-bit watermark at
\* most 2 bit errors are VALID and 3 or more are INVALID.  The bit errors are
\* counted here from the expected and the extracted bits of the verification.
C2_StatusIffBerWithinThreshold ==
  lastVerify # <<>> =>
    LET r == lastVerify[1].result
        n == r.log.numBits
        wrong == Cardinality({i \in 1..n : r.log.expected[i] # r.log.extracted[i]})
    IN /\ r.status \in {"VALID", "INVALID"}
       /\ r.status = "VALID" <=> (n > 0 /\ 100 * wrong <= BER_THRESHOLD * n)
       /\ (n > 0 /\ 100 * wrong = BER_THRESHOLD * n) => r.status = "VALID"
       /\ (n = 8 /\ wrong <= 2) => r.status = "VALID"
       /\ (n = 8 /\ wrong >= 3) => r.status = "INVALID"

\* a verification with 3 bit errors of 10: ber equals the threshold, status VALID
C2_Witness ==
  /\ lastVerify # <<>>
  /\ lastVerify[1].result.log.numBits = 10
  /\ lastVerify[1].result.log.errors = 3
  /\ lastVerify[1].result.status = "VALID"

\* C3: for every block given to verifyWatermark, the empty block of a secure
\* message without data included, ber equals 100 * (the number of positions where
\* expected and extracted differ) / detail.length and lies in [0, 100], and mse is
\* a number >= 0.
C3_BerAndMseInRange ==
  lastVerify # <<>> =>
    LET r == lastVerify[1].result
        n == r.log.numBits
        wrong == Cardinality({i \in 1..n : r.log.expected[i] # r.log.extracted[i]})
    IN /\ ~r.ber.nan
       /\ r.ber.den = n
       /\ r.ber.num = 100 * wrong
       /\ 0 <= r.ber.num /\ r.ber.num <= 100 * r.ber.den
       /\ ~r.mse.nan
       /\ ~r.mse.sum.neg

\* C4: for every block length N, the expected and the extracted watermark are
\* strings over {'0', '1'} of length exactly detail.length = N / 2, so that every
\* compared position exists in both.
C4_WatermarkBitStrings ==
  lastVerify # <<>> =>
    LET v == lastVerify[1]
        r == v.result
    IN /\ 2 * r.log.numBits = Len(v.processed)
       /\ Len(r.log.expected) = r.log.numBits
       /\ Len(r.log.extracted) = r.log.numBits
       /\ \A i \in 1..Len(r.log.expected) : r.log.expected[i] \in {"0", "1"}
       /\ \A i \in 1..Len(r.log.extracted) : r.log.extracted[i] \in {"0", "1"}

\* C9: whenever the processed block equals the received block sample by sample,
\* psnr is exactly 100.0; psnr is never infinite, and for mse > 0 it is
\* 20 * log10(MAX_BPM_REF / sqrt(mse)).
C9_PsnrCeiling ==
  lastVerify # <<>> =>
    LET v == lastVerify[1]
        r == v.result
    IN /\ v.processed = v.received => (r.psnr.form = "const" /\ r.psnr.db = 100)
       /\ ~PsnrIsInfinite(r.psnr)
       /\ (~r.mse.nan /\ ~DecIsZero(r.mse.sum))
            => (r.psnr.form = "log" /\ r.psnr.ref = MAX_BPM_REF /\ r.psnr.mse = r.mse)

C5_QimRoundTrip ==
  (call.fn = "qim" /\ ret # <<>>) =>
    /\ Len(ret[1]) = Len(call.cD)
    /\ \A i \in 1..Len(call.cD) :
         extractQIMBit(ret[1][i]) = call.bits[((i - 1) % Len(call.bits)) + 1]

\* the coefficient -0.5 embedded with bit 0: the step goes from -1 up to 0
C5_Witness ==
  /\ call.fn = "qim"
  /\ ret # <<>>
  /\ call.cD = <<Num(-50)>>
  /\ call.bits = <<"0">>
  /\ DecIsZero(ret[1][1])

\* the reconstruction error allowed for one sample: 10^-8
HaarTolerance == [neg |-> FALSE, mag |-> <<1>>, sc |-> 2]

\* C6: Haar round trip: for every even-length block, haarIDWT of the (cA, cD)
\* that haarDWT returns has the length of the block and, position by position,
\* its samples within 10^-8.
C6_HaarRoundTrip ==
  (call.fn = "haar" /\ ret # <<>> /\ Len(call.block) % 2 = 0) =>
    /\ Len(ret[1]) = Len(call.block)
    /\ \A i \in 1..Len(call.block) :
         DecLE(DecAbs(DecSub(ret[1][i], Num(call.block[i]))), HaarTolerance)

\* the block [72.0, 75.0] reconstructed: two different samples, in their order
C6_Witness ==
  /\ call.fn = "haar"
  /\ ret # <<>>
  /\ call.block = <<7200, 7500>>
  /\ Len(ret[1]) = 2
  /\ DecCmp(ret[1][1], ret[1][2]) < 0

\* C7: robustRound is idempotent: robustRound(robustRound(x)) == robustRound(x),
\* for negative x and the exact halves 2.5 and -2.5 as well.
C7_RobustRoundIdempotent ==
  (call.fn = "robustRound" /\ ret # <<>>) =>
    DecCmp(robustRound(ret[1]), ret[1]) = 0

\* robustRound(-2.5) has returned
C7_Witness ==
  /\ call.fn = "robustRound"
  /\ ret # <<>>
  /\ call.x = Num(-250)

\* C8: robustRound(x) is an integer multiple of 5 with |x - robustRound(x)| <= 2.5,
\* and an exact half goes to the larger multiple, for negative x as for positive.
C8_RobustRoundNearest ==
  (call.fn = "robustRound" /\ ret # <<>>) =>
    LET r == ret[1]
        d == DecAbs(DecSub(call.x, r))
    IN /\ DecCmp(DecInt(DecFloorDiv(r, 1)), r) = 0
       /\ DecFloorDiv(r, 1) % 5 = 0
       /\ DecLE(d, Num(250))
       /\ DecCmp(d, Num(250)) = 0 => DecCmp(r, call.x) > 0

\* robustRound(-7.5) has returned -5, the larger of the two nearest multiples
C8_Witness ==
  /\ call.fn = "robustRound"
  /\ ret # <<>>
  /\ call.x = Num(-750)
  /\ ret[1] = DecInt(-5)


(***************************************************************************)
(* Claims C11 to C20                                                       *)
(***************************************************************************)
\* a step that handles the secure message at the head of inbox
SecureStep ==
  /\ inbox # <<>>
  /\ inbox[1].json
  /\ inbox[1].type = "secure"
  /\ inbox' = Tail(inbox)

C12_InvalidBlockLength ==
  (lastVerify # <<>> /\ lastVerify[1].result.status \in {"VALID", "INVALID"}) =>
    /\ Len(lastVerify[1].processed) > 0
    /\ Len(lastVerify[1].processed) % 2 = 0

\* C13: verifyWatermark fails with BlockLengthMismatch when the received and
\* the processed block differ in length: it returns no status and no metrics
\* for them.
C13_BlockLengthMismatch ==
  (call.fn = "verify" /\ ret # <<>> /\ Len(call.block) # Len(call.other)) =>
    ret[1].status \notin {"VALID", "INVALID"}

C15_AttackKeyMode ==
  lastVerify # <<>> =>
    LET v == lastVerify[1]
        r == v.result
    IN /\ v.mode = "ATTACK_KEY" =>
            /\ v.processed = v.received
            /\ MseIsZero(r.mse)
            /\ r.psnr.form = "const" /\ r.psnr.db = 100
       /\ r.log.raw = HashInput(haarDWT(v.processed).cA, v.seq,
                                IF v.mode = "ATTACK_KEY" THEN FAKE_KEY ELSE SECRET_KEY)
       /\ r.log.expected = HashToBits(r.log.raw, r.log.numBits).bits

\* C16, as the specification states it: every 16-sample block that verifies
\* VALID undistorted gets ber > 30 and status INVALID once ATTACK_BPM has added
\* 30 to every sample.
C16_BpmAttackAlwaysInvalid ==
  (lastVerify # <<>> /\ lastVerify[1].mode = "ATTACK_BPM"
   /\ Len(lastVerify[1].received) = 16) =>
    LET v == lastVerify[1]
    IN verifyWatermark(v.received, v.received, v.seq, "NORMAL").status = "VALID"
         => /\ v.result.status = "INVALID"
            /\ ~v.result.ber.nan
            /\ v.result.ber.num > BER_THRESHOLD * v.result.ber.den

\* v: an ATTACK_BPM verification; u: the verification of the same block undistorted
C16_ShiftedBlock(v, u) ==
  u.status = "VALID" =>
    LET r == v.result
        wrong == Cardinality({i \in 1..8 : r.log.expected[i] # u.log.extracted[i]})
    IN /\ v.processed = [i \in 1..16 |-> v.received[i] + 3000]
       /\ ~r.mse.nan /\ r.mse.n = 16 /\ DecCmp(r.mse.sum, DecInt(900 * 16)) = 0
       /\ r.log.extracted = u.log.extracted
       /\ r.log.raw = HashInput(haarDWT(v.processed).cA, v.seq, SECRET_KEY)
       /\ r.status = "INVALID" <=> 100 * wrong > BER_THRESHOLD * 8
       /\ r.status = "VALID" <=> wrong <= 2

\* C16, as the code has it: for a 16-sample block that verifies VALID
\* undistorted, ATTACK_BPM gives a processed block with 30 added to every
\* sample, mse == 900 and the same extracted bits as the undistorted block; the
\* expected bits are hashed from the trend of the shifted block, and the status
\* is INVALID exactly when more than 2 of these 8 bits differ from the
\* extracted bits (VALID when at most 2 differ).
C16_BpmAttackThroughHash ==
  (lastVerify # <<>> /\ lastVerify[1].mode = "ATTACK_BPM"
   /\ Len(lastVerify[1].received) = 16) =>
    C16_ShiftedBlock(lastVerify[1],
                     verifyWatermark(lastVerify[1].received, lastVerify[1].received,
                                     lastVerify[1].seq, "NORMAL"))

\* the block that carries its watermark for sequence number 1 went through
\* ATTACK_BPM and is INVALID
C16_Witness ==
  /\ lastVerify # <<>>
  /\ lastVerify[1].mode = "ATTACK_BPM"
  /\ lastVerify[1].seq = 1
  /\ lastVerify[1].received = [i \in 1..16 |-> IF i \in {4, 10} THEN 7200 ELSE 7500]
  /\ lastVerify[1].result.log.extracted # lastVerify[1].result.log.expected
  /\ lastVerify[1].result.status = "INVALID"

\* the trend coefficients of two blocks robustRound to the same multiples of 5
C17_SameRoundedTrend(cA1, cA2) ==
  /\ Len(cA1) = Len(cA2)
  /\ \A i \in 1..Len(cA1) : DecCmp(robustRound(cA1[i]), robustRound(cA2[i])) = 0

\* the detail coefficients of two blocks have the same QIM step parity
C17_SameParity(cD1, cD2) ==
  /\ Len(cD1) = Len(cD2)
  /\ \A i \in 1..Len(cD1) : extractQIMBit(cD1[i]) = extractQIMBit(cD2[i])

C17_Stable(r, d1, d2) ==
  C17_SameRoundedTrend(d1.cA, d2.cA) =>
    /\ r.a.log.expected = r.b.log.expected
    /\ C17_SameParity(d1.cD, d2.cD) =>
         (r.a.ber = r.b.ber /\ r.a.status = r.b.status)

\* C17: two processed blocks with the same sequence number and key whose trend
\* coefficients robustRound to the same multiples of 5 get the same expected
\* bits; if their detail coefficients also have the same QIM step parity, the
\* two verifications return the same ber and the same status.
C17_Stability ==
  (call.fn = "stability" /\ ret # <<>>) =>
    C17_Stable(ret[1], haarDWT(call.block), haarDWT(call.other))

\* two blocks with different trend coefficients that round alike and with
\* detail coefficients of the same parity; both verifications are VALID
C17_Witness ==
  /\ call.fn = "stability"
  /\ ret # <<>>
  /\ haarDWT(call.block).cA # haarDWT(call.other).cA
  /\ C17_SameRoundedTrend(haarDWT(call.block).cA, haarDWT(call.other).cA)
  /\ C17_SameParity(haarDWT(call.block).cD, haarDWT(call.other).cD)
  /\ ret[1].a.status = "VALID"
  /\ ret[1].b.status = "VALID"

(***************************************************************************)
(* Properties of the message handler (SpecMonitor)                         *)
(***************************************************************************)
\* a step that handles the message at the head of inbox
MessageStep == inbox # <<>> /\ inbox' = Tail(inbox)

\* C18: a 'live' message runs no verification and leaves blockCount,
\* validBlocks, invalidBlocks, blockHistory and dataHistory unchanged; a 'secure'
\* message leaves packetCount, bpmHistory and the stored BPM values unchanged; a
\* message of any other type changes no state.
C18_MessageFrames ==
  [][(MessageStep /\ inbox[1].json) =>
       /\ inbox[1].type = "live" =>
            /\ lastVerify' = lastVerify /\ arrays' = arrays
            /\ randomCalls' = randomCalls
            /\ stats'.blockCount = stats.blockCount
            /\ stats'.validBlocks = stats.validBlocks
            /\ stats'.invalidBlocks = stats.invalidBlocks
            /\ blockHistory' = blockHistory
            /\ dataHistory' = dataHistory
       /\ inbox[1].type = "secure" =>
            /\ stats'.packetCount = stats.packetCount
            /\ stats'.allBPM = stats.allBPM
            /\ bpmHistory' = bpmHistory
       /\ inbox[1].type \notin {"live", "secure"} =>
            /\ stats' = stats /\ blockHistory' = blockHistory
            /\ dataHistory' = dataHistory /\ bpmHistory' = bpmHistory
            /\ compStats' = compStats /\ attackMode' = attackMode
            /\ lastVerify' = lastVerify /\ arrays' = arrays]_vars

\* a live message and a secure message have both been handled
C18_Witness ==
  /\ inbox = <<>>
  /\ stats.packetCount = 1
  /\ stats.blockCount = 1
  /\ Len(bpmHistory) = 1
  /\ Len(blockHistory) = 1

\* C19: a message whose handling ends in the catch (a payload that is not
\* JSON, or a secure message that throws at any point) leaves stats,
\* blockHistory, dataHistory, compStats and bpmHistory as they were.
C19_FailedMessageLeavesState ==
  [][(MessageStep /\ caught') =>
       /\ stats' = stats
       /\ blockHistory' = blockHistory
       /\ dataHistory' = dataHistory
       /\ compStats' = compStats
       /\ bpmHistory' = bpmHistory]_vars

\* C20: every secure message whose verification returns adds one to blockCount
\* and one to exactly one of validBlocks and invalidBlocks, by the status, and no
\* other message changes them; blockCount == validBlocks + invalidBlocks after
\* any sequence of messages.
C20_BlockCounters ==
  /\ [](stats.blockCount = stats.validBlocks + stats.invalidBlocks)
  /\ [][MessageStep =>
          IF inbox[1].json /\ inbox[1].type = "secure"
          THEN /\ stats'.blockCount = stats.blockCount + 1
               /\ stats'.validBlocks = stats.validBlocks
                    + (IF lastVerify'[1].result.status = "VALID" THEN 1 ELSE 0)
               /\ stats'.invalidBlocks = stats.invalidBlocks
                    + (IF lastVerify'[1].result.status = "VALID" THEN 0 ELSE 1)
          ELSE /\ stats'.blockCount = stats.blockCount
               /\ stats'.validBlocks = stats.validBlocks
               /\ stats'.invalidBlocks = stats.invalidBlocks]_vars

\* two secure messages handled, one VALID and one INVALID
C20_Witness ==
  /\ stats.blockCount = 2
  /\ stats.validBlocks = 1
  /\ stats.invalidBlocks = 1
  /\ Len(blockHistory) = 2

(***************************************************************************)
(* Claims C21 to C30                                                       *)
(***************************************************************************)
\* C21: for every secure message, the mode that distorts the block, the mode
\* that selects the verification key and the mode, sequence number and status
\* of the new block-history row are those of that message: the mode selected
\* when it is handled, its own sequence number and the status of its own
\* verification, whatever the order of the sequence numbers; a mode change
\* handles no message and changes no row, result or counter.
C21_ModeAttribution ==
  /\ [][SecureStep =>
          LET v == lastVerify'[1]
          IN /\ v.mode = attackMode /\ attackMode' = attackMode
             /\ v.seq = inbox[1].seq
             /\ v.received = inbox[1].data
             /\ attackMode \notin AwgnModes =>
                  v.processed = applyAttack(inbox[1].data, attackMode, <<>>)
             /\ v.result.log.raw = HashInput(haarDWT(v.processed).cA, v.seq,
                                             VerifyKey(attackMode))
             /\ blockHistory' = Append(blockHistory,
                                       [seq |-> inbox[1].seq,
                                        status |-> v.result.status,
                                        mode |-> attackMode])]_vars
  /\ [][attackMode' # attackMode =>
          /\ inbox' = inbox /\ lastVerify' = lastVerify
          /\ blockHistory' = blockHistory /\ stats' = stats]_vars

\* two secure messages, sequence number 5 before 0, handled in two modes: each
\* row carries the mode selected when its message was handled
C21_Witness ==
  /\ Len(blockHistory) = 2
  /\ blockHistory[1].seq = 5
  /\ blockHistory[1].mode = "ATTACK_KEY"
  /\ blockHistory[2].seq = 0
  /\ blockHistory[2].mode = "NORMAL"
  /\ lastVerify[1].mode = "NORMAL"

\* ---------------------------------------------------------------------
\* the rows the data table holds when it holds exactly the rows of the
\* tracked blocks: len rows per entry of dataHistory, oldest block first
RECURSIVE C22_RowsOf(_)
C22_RowsOf(hist) ==
  IF hist = <<>> THEN <<>>
  ELSE [i \in 1..hist[1].len |-> [seq |-> hist[1].seq, sample |-> i]]
       \o C22_RowsOf(Tail(hist))

\* C22: after any sequence of secure messages dataHistory tracks at most 50
\* blocks and the data table holds exactly the rows of the tracked blocks
\* (as many rows as the sum of len over dataHistory); when the 51st block
\* arrives exactly the rows of the oldest tracked block are removed.
C22_TableHoldsTrackedBlocks ==
  /\ Len(dataHistory) <= MAX_BLOCKS
  /\ dom.dataRows = C22_RowsOf(dataHistory)

\* C23: after any sequence of appendLog calls the log area never holds more
\* than LOG_MAX_LINES (200) lines.
C23_LogWithinLimit == dom.logLines <= LOG_MAX_LINES

\* ---------------------------------------------------------------------
\* the values of a queue of live messages
C24_Values(q) == [i \in 1..Len(q) |-> q[i].val]

\* the last k elements of a sequence
C24_Last(s, k) == SubSeq(s, Len(s) - k + 1, Len(s))

\* C24: after n live messages bpmHistory holds exactly the last
\* min(n, CHART_MAX) values in arrival order, it never holds more than
\* CHART_MAX values, and the chart data equals bpmHistory.
C24_ChartWindow ==
  LET arrived == stats.allBPM
      n == Len(arrived)
  IN /\ (n > 0 \/ (inbox # <<>> /\ inbox[1].type = "live")) =>
          arrived \o C24_Values(inbox) = C24_Values(LiveQueue)
     /\ Len(bpmHistory) <= CHART_MAX
     /\ bpmHistory = C24_Last(arrived, IF n < CHART_MAX THEN n ELSE CHART_MAX)
     /\ dom.chartData = bpmHistory

C24_Witness ==
  /\ Len(stats.allBPM) > CHART_MAX + 1
  /\ Len(bpmHistory) = CHART_MAX
  /\ bpmHistory[1] = stats.allBPM[Len(stats.allBPM) - CHART_MAX + 1]
  /\ bpmHistory[1] # stats.allBPM[1]

\* ---------------------------------------------------------------------
\* C25: an alert stays visible until 8 seconds after the most recent
\* showAlert call or until the close button is clicked: at most one hide
\* timer is pending at any time, a visible alert has its own timer pending,
\* due 8 seconds after it was shown, and a timer never hides an alert that
\* has been shown for less than 8 seconds.
C25_AlertTimer ==
  /\ [](/\ Cardinality(win.timers) <= 1
        /\ dom.alertShown =>
             \E t \in win.timers :
               t.id = win.alertTimer /\ t.due = win.shownAt + ALERT_HIDE)
  /\ [][(dom.alertShown /\ ~dom.alertShown') =>
          \/ win' = win
          \/ /\ win.now >= win.shownAt + ALERT_HIDE
             /\ win'.timers = {}]_vars

\* a second alert, shown while the timer of the first one was pending, is
\* still visible after the first timer's time has passed
C25_Witness ==
  /\ win.nextId = 3
  /\ dom.alertShown
  /\ win.shownAt \in 1..(ALERT_HIDE - 1)
  /\ win.now > ALERT_HIDE
  /\ win.now < win.shownAt + ALERT_HIDE

\* ---------------------------------------------------------------------
\* C26: the connection badge shows 'Connected' exactly when the most recent
\* connection event was 'connect', 'Disconnected' when it was 'error' or
\* 'close' and 'Connecting...' when it was 'reconnect' or no event has
\* occurred; every 'connect' event, also one after a reconnect, issues one
\* subscribe to MQTT_TOPIC, and no other event issues one.
C26_BadgeFollowsEvents ==
  /\ [](/\ (dom.mqttText = "Connected") <=> (mqtt.last = "connect")
        /\ mqtt.last \in {"error", "close"} => dom.mqttText = "Disconnected"
        /\ mqtt.last \in {"reconnect", "none"} => dom.mqttText = "Connecting..."
        /\ (mqtt.last = "none") <=> (mqtt.events = 0))
  /\ [][mqtt'.events # mqtt.events =>
          IF mqtt'.last = "connect"
          THEN mqtt'.subscribes = mqtt.subscribes + 1 /\ mqtt'.topic = MQTT_TOPIC
          ELSE mqtt'.subscribes = mqtt.subscribes]_vars

\* connected again after a reconnect, with a second subscribe issued
C26_Witness ==
  /\ mqtt.events = 4
  /\ mqtt.last = "connect"
  /\ mqtt.subscribes = 2
  /\ dom.mqttText = "Connected"
  /\ dom.logLines > 1

\* ---------------------------------------------------------------------
\* the samples of b differ from those of a by 0.4 up or down
C27_NoisyBy04(a, b) ==
  /\ Len(b) = Len(a)
  /\ \A i \in 1..Len(a) : b[i] - a[i] \in {-40, 40}

\* C27: in NOISE mode the block handed to verification differs from the
\* received block by noise of +-0.4 on every sample, while in NORMAL mode it
\* is the received block unchanged.
C27_NoiseMode ==
  (call.fn = "attack" /\ ret # <<>>) =>
     /\ ret[1].normal = call.block
     /\ C27_NoisyBy04(call.block, ret[1].noise)

\* the same statement for applyAttack of src/unnamed/part_000, which has the
\* NOISE branch
C27_NoiseModePart000 ==
  (call.fn = "attack" /\ ret # <<>>) =>
     /\ ret[1].p0normal = call.block
     /\ C27_NoisyBy04(call.block, ret[1].p0noise)

\* ---------------------------------------------------------------------
\* C28: the hash input string built by getExpectedBits is injective: for a
\* fixed key and sequence number, two calls whose sequences of rounded trend
\* coefficients differ never produce the same raw input string.
C28_HashInputInjective ==
  (call.fn = "stability" /\ ret # <<>>) =>
     (~C17_SameRoundedTrend(haarDWT(call.block).cA, haarDWT(call.other).cA) =>
        ret[1].a.log.raw # ret[1].b.log.raw)

\* ---------------------------------------------------------------------
\* v: an ATTACK_BPM verification; u: the verification of the same block
\* undistorted; d, e: the transforms of the received and of the processed block
C29_Shifted(v, u, d, e) ==
  LET r == v.result
      n == Len(v.received)
  IN /\ v.processed = [i \in 1..n |-> v.received[i] + 3000]
     /\ Len(e.cD) = Len(d.cD)
     /\ \A i \in 1..Len(d.cD) : DecCmp(e.cD[i], d.cD[i]) = 0
     /\ r.log.extracted = u.log.extracted
     /\ ~r.mse.nan /\ r.mse.n = n /\ DecCmp(r.mse.sum, DecInt(900 * n)) = 0
     /\ C17_SameRoundedTrend(d.cA, e.cA) => r.status = u.status

\* C29: adding 30 to every sample (ATTACK_BPM) leaves every detail
\* coefficient and every extracted QIM bit unchanged and gives mse == 900; the
\* verdict can change only through the rounded trend coefficients.
C29_ConstantShift ==
  (lastVerify # <<>> /\ lastVerify[1].mode = "ATTACK_BPM") =>
    C29_Shifted(lastVerify[1],
                verifyWatermark(lastVerify[1].received, lastVerify[1].received,
                                lastVerify[1].seq, "NORMAL"),
                haarDWT(lastVerify[1].received), haarDWT(lastVerify[1].processed))

\* the same statement for the blocks that have at least one sample
C29_ConstantShiftNonEmpty ==
  (lastVerify # <<>> /\ lastVerify[1].mode = "ATTACK_BPM"
   /\ lastVerify[1].received # <<>>) =>
    C29_Shifted(lastVerify[1],
                verifyWatermark(lastVerify[1].received, lastVerify[1].received,
                                lastVerify[1].seq, "NORMAL"),
                haarDWT(lastVerify[1].received), haarDWT(lastVerify[1].processed))

\* ---------------------------------------------------------------------
\* the part of a verification result the dashboard shows
C30_Shown(r) == [status |-> r.status, ber |-> r.ber, mse |-> r.mse, psnr |-> r.psnr]

C30_Counters(st) ==
  [blockCount |-> st.blockCount, validBlocks |-> st.validBlocks,
   invalidBlocks |-> st.invalidBlocks]

\* p0: what the handler of src/unnamed/part_000 does with the message at the
\* head of inbox, starting from the same statistics
C30_SameOutcome(p0) ==
  /\ C30_Counters(p0.stats) = C30_Counters(stats')
  /\ (inbox[1].json /\ inbox[1].type = "secure") =>
       /\ p0.result # <<>>
       /\ C30_Shown(p0.result[1]) = C30_Shown(lastVerify'[1].result)
       /\ lastVerify'[1].seq = inbox[1].seq

\* C30: in NORMAL mode the two receivers agree: for every block and sequence
\* number both verifyWatermark functions return the same status, ber, mse and
\* psnr, and every message leaves the same blockCount, validBlocks and
\* invalidBlocks in both, so that the counters agree after the same sequence
\* of messages.
C30_ReceiversAgree ==
  [][(MessageStep /\ attackMode = "NORMAL") =>
       C30_SameOutcome(P0_onMessage(stats, attackMode, inbox[1]))]_vars

\* a 16-sample block verified VALID and counted in NORMAL mode
C30_Witness ==
  /\ lastVerify # <<>>
  /\ lastVerify[1].mode = "NORMAL"
  /\ Len(lastVerify[1].received) = 16
  /\ lastVerify[1].result.status = "VALID"
  /\ stats.validBlocks = 1
  /\ P0_verifyWatermark(lastVerify[1].received, lastVerify[1].processed,
                        lastVerify[1].seq, "NORMAL").status = "VALID"
====
